---- MODULE Spec2Model ----
(***************************************************************************)
(* State-machine model of src/main.py, a Streamlit script.  Streamlit      *)
(* re-executes the whole script after every user interaction, so every     *)
(* action below is one interaction followed by one complete script run:    *)
(* session-state initialisation (lines 22-29), the input widgets (288-308),*)
(* the ingestion branch (332-392) and the query / analysis section         *)
(* (398-423).  The libraries the script calls (pandas, BeautifulSoup,      *)
(* PyPDF2, requests, matplotlib, the agent) are the environment: what they *)
(* return or raise is chosen nondeterministically from the inputs.         *)
(*                                                                         *)
(* Python values: None is the empty tuple and a present value x is <<x>>;  *)
(* a str is a sequence of characters; a dict is a record or a function on  *)
(* its keys.  A call that may raise returns [raised, ret].                 *)
(***************************************************************************)
EXTENDS Naturals, Sequences, FiniteSets, TLC

VARIABLES
    df,             \* st.session_state.df
    text_content,   \* st.session_state.text_content
    uploaded_file,  \* st.session_state.uploaded_file
    input_url,      \* st.session_state.input_url (value of the URL widget)
    input_method,   \* value of the radio 'input_method'
    file_type,      \* value of the radio 'file_type'
    query,          \* value of the text area 'query_input'
    query_widget,   \* how the last run left the query widget on the page
    origin,         \* history: the source each held object was produced from
    last_ingested,  \* history: which object the most recent ingestion set
    run             \* what the last script run did

vars == <<df, text_content, uploaded_file, input_url, input_method, file_type,
          query, query_widget, origin, last_ingested, run>>

----------------------------------------------------------------------------
(* Bounds of the model *)

\* a long text has PrefixLen + MaxExtra characters
MaxExtra == 1
\* an HTML body holds at most MaxTables table elements
MaxTables == 3
\* a chart spec holds at most MaxLabels labels and at most MaxLabels values
MaxLabels == 2

(* Program constants *)

\* st.session_state.text_content[:3000]
PrefixLen == 3000

----------------------------------------------------------------------------
(* Python values *)

None == <<>>
Some(x) == <<x>>
Val(o) == o[1]

Returned(v) == [raised |-> None, ret |-> Some(v)]
Raised(e) == [raised |-> Some(e), ret |-> None]

Min(a, b) == IF a <= b THEN a ELSE b

\* s[:n] for a str s
Slice(s, n) == SubSeq(s, 1, Min(n, Len(s)))

Char(i) == CASE i % 3 = 1 -> "a" [] i % 3 = 2 -> "b" [] OTHER -> "c"
\* a text of n characters
Text(n) == [i \in 1 .. n |-> Char(i)]

EmptyText == Text(0)
ShortText == Text(2)
EdgeText == Text(PrefixLen)
LongText == Text(PrefixLen + MaxExtra)

----------------------------------------------------------------------------
(* Uploaded files: the declared type, whether the bytes are well formed,   *)
(* and what the format's reader extracts from them.                        *)

FileTypes == {"Excel", "CSV", "Word", "HTML", "PDF"}

\* a file is held by name; ok says whether its bytes are of its format
File(name, fmt, ok) == [name |-> name, fmt |-> fmt, ok |-> ok]

Files ==
    { File("book.xlsx", "Excel", TRUE),
      File("data.csv", "CSV", TRUE),
      File("broken.csv", "CSV", FALSE),
      File("note.docx", "Word", TRUE),
      File("broken.docx", "Word", FALSE),
      File("page.html", "HTML", TRUE),
      File("long.pdf", "PDF", TRUE),
      File("scan.pdf", "PDF", TRUE) }

\* the rows a tabular file holds
RowsOf(f) == f.name

\* the text a document holds
TextOf(f) ==
    CASE f.name = "note.docx" -> ShortText
      [] f.name = "page.html" -> EdgeText
      [] f.name = "long.pdf" -> LongText
      [] OTHER -> EmptyText

\* a DataFrame is identified by the rows it was built from
DataFrame(rows) == [rows |-> rows]

\* openpyxl.load_workbook + pd.read_excel
read_excel(f) == IF f.ok THEN Returned(DataFrame(RowsOf(f))) ELSE Raised("ParseError")

\* pd.read_csv
read_csv(f) == IF f.ok THEN Returned(DataFrame(RowsOf(f))) ELSE Raised("ParseError")

\* docx.Document raises on a stream that is no Word document
process_word_file(f) == IF f.ok THEN Returned(TextOf(f)) ELSE Raised("ParseError")

\* BeautifulSoup's html.parser accepts every byte stream
process_html_file(f) == Returned(TextOf(f))

\* PyPDF2.PdfReader raises on a stream that is no PDF; a scanned page yields ''
process_pdf_file(f) == IF f.ok THEN Returned(TextOf(f)) ELSE Raised("ParseError")

----------------------------------------------------------------------------
(* URLs and HTTP responses *)

Url(scheme, rest) == [scheme |-> scheme, rest |-> rest]
\* the empty string typed into (or left in) the URL widget
EmptyUrl == Url("", "")
Urls == {Url("", "example.com/data"), Url("http", "example.com/data"),
         Url("https", "example.com/data")}

\* the table elements a page may hold; read_html finds no table in an
\* element without any cell text and raises ValueError
TableElems ==
    { [elem |-> "A", rows |-> "rows_A", columns |-> <<"x">>, parses |-> TRUE],
      [elem |-> "B", rows |-> "rows_B", columns |-> <<"y", "z">>, parses |-> TRUE],
      [elem |-> "E", rows |-> "", columns |-> <<>>, parses |-> FALSE] }

SeqsUpTo(S, n) == UNION {[1 .. k -> S] : k \in 0 .. n}

Response(net, status, ctype, tables, text, pdf_ok) ==
    [net |-> net, status |-> status, content_type |-> ctype,
     tables |-> tables, text |-> text, pdf_ok |-> pdf_ok]

HtmlType == "text/html; charset=utf-8"
PdfType == "application/pdf"
PlainType == "text/plain"

\* 'text/html' in content_type, 'application/pdf' in content_type
IsHtml(ctype) == ctype \in {"text/html", HtmlType}
IsPdf(ctype) == ctype \in {PdfType}

\* what the environment may answer to a GET: no connection, an error status,
\* a page with the given tables, a PDF (with text, scanned, or corrupt), or
\* plain text
ResponsesWith(tableSeqs) ==
    {Response("error", 0, "", <<>>, EmptyText, FALSE)}
    \cup {Response("ok", 404, HtmlType, <<>>, ShortText, FALSE)}
    \cup {Response("ok", 200, HtmlType, t, ShortText, FALSE) : t \in tableSeqs}
    \cup {Response("ok", 200, PdfType, <<>>, t, TRUE) : t \in {EmptyText, ShortText}}
    \cup {Response("ok", 200, PdfType, <<>>, EmptyText, FALSE)}
    \cup {Response("ok", 200, PlainType, <<>>, ShortText, FALSE)}

Responses == ResponsesWith(SeqsUpTo(TableElems, MaxTables))

\* f"table_{i}"
TableId(i) == <<"table", i>>

\* the list comprehension over enumerate(soup.find_all('table'))
ExtractTables(elems) ==
    [i \in 1 .. Len(elems) |->
        [table_id |-> TableId(i - 1), data |-> elems[i].rows,
         columns |-> elems[i].columns]]

\* the target after the scheme check
WithScheme(target_url) ==
    IF target_url.scheme = "" THEN Url("https", target_url.rest) ELSE target_url

\* the body of the try block
FetchBody(resp) ==
    IF resp.net = "error" THEN Raised("ConnectionError")
    ELSE IF resp.status >= 400 THEN Raised("HTTPError")
    ELSE IF IsHtml(resp.content_type)
    THEN IF \E i \in 1 .. Len(resp.tables) : ~resp.tables[i].parses
         THEN Raised("ValueError")
         ELSE Returned([type |-> "html", tables |-> ExtractTables(resp.tables),
                        text |-> resp.text, status |-> "success"])
    ELSE IF IsPdf(resp.content_type)
    THEN IF resp.pdf_ok
         THEN Returned([type |-> "pdf", text |-> resp.text, status |-> "success"])
         ELSE Raised("PdfReadError")
    ELSE Returned([type |-> "unknown", content |-> resp.text, status |-> "success"])

\* a faulty variant: the handler catches only the errors of the request
fetch_url_content_requests_only(target_url, resp) ==
    LET r == FetchBody(resp)
    IN  [raised |-> IF r.raised \in {Some("ConnectionError"), Some("HTTPError")}
                    THEN None ELSE r.raised,
         ret |-> IF r.raised \in {Some("ConnectionError"), Some("HTTPError")}
                 THEN Some([status |-> "error", message |-> Val(r.raised)])
                 ELSE r.ret,
         requested |-> <<WithScheme(target_url)>>]

\* the call's outcome and the GET requests it issued
fetch_url_content(target_url, resp) ==
    LET r == FetchBody(resp)
    IN  [raised |-> None,
         ret |-> IF r.raised # None
                 THEN Some([status |-> "error", message |-> Val(r.raised)])
                 ELSE r.ret,
         requested |-> <<WithScheme(target_url)>>]

----------------------------------------------------------------------------
(* The ingestion branches.  Each returns the session's df and text_content *)
(* after the branch, what the branch did, and whether an exception left    *)
(* the script (Streamlit then shows it and ends the run there).            *)

Ingested(d, t, what, aborted) ==
    [df |-> d, text_content |-> t, ingest |-> what, aborted |-> aborted]

\* a faulty variant: the frame and the text are reset before the file is read
UploadIngestClearsFirst(d, t, ftype, f) ==
    LET r == CASE ftype = "Excel" -> read_excel(f)
               [] ftype = "CSV" -> read_csv(f)
               [] ftype = "Word" -> process_word_file(f)
               [] ftype = "HTML" -> process_html_file(f)
               [] OTHER -> process_pdf_file(f)
    IN  IF r.raised # None THEN Ingested(None, None, "ParseError", TRUE)
        ELSE IF ftype \in {"Excel", "CSV"} THEN Ingested(r.ret, None, "df", FALSE)
        ELSE Ingested(None, r.ret, "text", FALSE)

\* if input_method == upload and st.session_state.uploaded_file: ...
UploadIngest(d, t, ftype, f) ==
    LET r == CASE ftype = "Excel" -> read_excel(f)
               [] ftype = "CSV" -> read_csv(f)
               [] ftype = "Word" -> process_word_file(f)
               [] ftype = "HTML" -> process_html_file(f)
               [] OTHER -> process_pdf_file(f)
    IN  IF r.raised # None THEN Ingested(d, t, "ParseError", TRUE)
        ELSE IF ftype \in {"Excel", "CSV"} THEN Ingested(r.ret, t, "df", FALSE)
        ELSE Ingested(d, r.ret, "text", FALSE)

\* content.get("text") or content["content"]
TextOrContent(content) ==
    IF "text" \in DOMAIN content /\ content.text # EmptyText
    THEN Returned(content.text)
    ELSE IF "content" \in DOMAIN content THEN Returned(content.content)
    ELSE Raised("KeyError")

\* elif input_method == url and st.session_state.input_url: ... on the dict
\* fetch_url_content returned
UrlIngest(d, t, content) ==
    IF content.status = "success"
    THEN IF content.type = "html"
         THEN IF content.tables # <<>>
              THEN Ingested(Some(DataFrame(content.tables[1].data)), t, "df", FALSE)
              ELSE Ingested(d, t, "none", FALSE)
         ELSE LET r == TextOrContent(content)
              IN  IF r.raised # None THEN Ingested(d, t, "KeyError", TRUE)
                  ELSE Ingested(d, r.ret, "text", FALSE)
    ELSE Ingested(d, t, "FetchError", FALSE)

----------------------------------------------------------------------------
(* The result renderer *)

Keys == <<"answer", "table", "bar", "line">>

ChartSpec(columns, data) == [columns |-> columns, data |-> data]
WellFormed(spec) == Len(spec.columns) = Len(spec.data)

\* the style create_chart asks matplotlib for
StyleName == "seaborn-white grid"
\* the styles of a stock matplotlib
StockStyles == {"default", "ggplot", "seaborn-white", "seaborn-whitegrid"}
\* the style libraries of the environment: stock, or with a user style
\* file of that name
StyleLibraries == {StockStyles, StockStyles \cup {StyleName}}

Chart(raised, steps) == [raised |-> raised, steps |-> steps]

\* a faulty variant: the DataFrame of the columns and the data is not built,
\* so matplotlib meets the mismatch after the figure is created
create_chart_unvalidated(input_data, chart_type, library) ==
    IF StyleName \notin library THEN Chart(Some("OSError"), <<"style">>)
    ELSE IF chart_type = "bar"
    THEN IF WellFormed(input_data)
         THEN Chart(None, <<"style", "subplots", "bar", "pyplot">>)
         ELSE Chart(Some("ValueError"), <<"style", "subplots", "bar">>)
    ELSE IF chart_type = "line"
    THEN IF WellFormed(input_data)
         THEN Chart(None, <<"style", "subplots", "plot", "pyplot">>)
         ELSE Chart(Some("ValueError"), <<"style", "subplots", "plot">>)
    ELSE Chart(None, <<"style">>)

\* the calls create_chart makes, in order, up to the one that raises:
\* plt.style.use raises OSError for a style the library does not hold,
\* pd.DataFrame raises ValueError for arrays of different lengths
create_chart(input_data, chart_type, library) ==
    IF StyleName \notin library THEN Chart(Some("OSError"), <<"style">>)
    ELSE IF ~WellFormed(input_data) THEN Chart(Some("ValueError"), <<"style", "frame">>)
    ELSE IF chart_type = "bar"
    THEN Chart(None, <<"style", "frame", "subplots", "bar", "pyplot">>)
    ELSE IF chart_type = "line"
    THEN Chart(None, <<"style", "frame", "subplots", "plot", "pyplot">>)
    ELSE Chart(None, <<"style", "frame">>)

\* one section of display_result: None when the key is absent
Section(analysis_result, key, library) ==
    IF key \notin DOMAIN analysis_result THEN None
    ELSE IF key \in {"bar", "line"}
    THEN Some(create_chart(analysis_result[key], key, library))
    ELSE Some(Chart(None, <<>>))

RECURSIVE DisplayFrom(_, _, _, _)
\* the four ifs of display_result from the i-th on, given what is rendered
DisplayFrom(analysis_result, library, i, acc) ==
    IF i > Len(Keys) THEN acc
    ELSE LET s == Section(analysis_result, Keys[i], library)
         IN  IF s = None THEN DisplayFrom(analysis_result, library, i + 1, acc)
             ELSE IF Val(s).raised # None
             THEN [acc EXCEPT !.raised = Val(s).raised,
                              !.charts = Append(@, [key |-> Keys[i], chart |-> Val(s)])]
             ELSE DisplayFrom(analysis_result, library, i + 1,
                     [acc EXCEPT !.rendered = Append(@, Keys[i]),
                                 !.charts = IF Keys[i] \in {"bar", "line"}
                                            THEN Append(@, [key |-> Keys[i], chart |-> Val(s)])
                                            ELSE @])

\* the sections rendered in order, the charts attempted, and the exception
\* that ended the rendering, if any
display_result(analysis_result, library) ==
    DisplayFrom(analysis_result, library, 1,
                [rendered |-> <<>>, charts |-> <<>>, raised |-> None])

----------------------------------------------------------------------------
(* The analysis section *)

\* not st.session_state.uploaded_file / not st.session_state.input_url
Truthy(o) == o # None /\ o # Some(EmptyUrl)

\* a faulty variant: the check of the query is missing
ValidationSourceOnly(method, file, url, q) ==
    IF (method = "upload" /\ ~Truthy(file)) \/ (method = "url" /\ ~Truthy(url))
    THEN "warn_source"
    ELSE "ok"

\* the if / elif of the button handler before the dispatch
Validation(method, file, url, q) ==
    IF (method = "upload" /\ ~Truthy(file)) \/ (method = "url" /\ ~Truthy(url))
    THEN "warn_source"
    ELSE IF q = "" THEN "warn_query"
    ELSE "ok"

\* the label in front of the text: six Chinese characters (written here by
\* their pinyin), a colon and two newlines
Label == <<"wen", "ben", "fen", "xi", "jie", "guo", ":", "\n", "\n">>

\* a faulty variant: the text is not cut
TextEchoUncut(text) == [answer |-> Label \o text]

\* the result of the text branch
TextEcho(text) == [answer |-> Label \o Slice(text, PrefixLen)]

\* what dataframe_agent may return: any subset of the four keys
AgentAnswer == <<"o", "k">>
AgentTable == [data |-> "agent_rows", columns |-> <<"c">>]

AgentResult(ks, bar, line) ==
    [k \in ks |-> CASE k = "answer" -> AgentAnswer
                    [] k = "table" -> AgentTable
                    [] k = "bar" -> bar
                    [] OTHER -> line]

Labels(n) == [i \in 1 .. n |-> Char(i)]
Values(n) == [i \in 1 .. n |-> i]

\* chart specs with up to MaxLabels labels and values, of equal counts or not
ChartSpecs == {ChartSpec(Labels(n), Values(m)) : n, m \in 0 .. MaxLabels}

\* every subset of the keys with every pair of chart specs
AgentResults ==
    {AgentResult(ks, b, l) :
        ks \in SUBSET {"answer", "table", "bar", "line"}, b \in ChartSpecs, l \in ChartSpecs}

\* dataframe_agent returns a result or raises
AgentOutcomes(results) == {Raised("AgentError")} \cup {Returned(r) : r \in results}

\* what a click did: the outcome, the branch of the dispatch, the calls of the
\* agent, the Analysis Result, what display_result rendered, the exception
\* caught, and the style library the charts were drawn with
Analysis(outcome, branch, calls, result, display, error, library) ==
    [outcome |-> outcome, branch |-> branch, calls |-> calls, result |-> result,
     display |-> display, error |-> error, library |-> library]

\* the if / else inside the try: the agent for a frame, the echo otherwise
\* (None[:3000] raises TypeError)
Dispatch(d, t, q, agent) ==
    IF d # None
    THEN [branch |-> "agent", calls |-> <<[frame |-> Val(d), query |-> q]>>, out |-> agent]
    ELSE IF t = None
    THEN [branch |-> "text", calls |-> <<>>, out |-> Raised("TypeError")]
    ELSE [branch |-> "text", calls |-> <<>>, out |-> Returned(TextEcho(Val(t)))]

\* the body of: if st.button(...)
AnalyzeButton(d, t, method, file, url, q, agent, library) ==
    LET v == Validation(method, file, url, q)
        c == Dispatch(d, t, q, agent)
        disp == display_result(Val(c.out.ret), library)
    IN  IF v # "ok" THEN Analysis(v, "none", <<>>, None, None, None, library)
        ELSE IF c.out.raised # None
        THEN Analysis("error", c.branch, c.calls, None, None, c.out.raised, library)
        ELSE Analysis(IF disp.raised # None THEN "error" ELSE "displayed",
                      c.branch, c.calls, c.out.ret, Some(disp), disp.raised, library)

----------------------------------------------------------------------------
(* One run of the script *)

Queries == {"", "q1"}

\* the inputs of a session: one address; a failed connection, pages with no
\* table, one table, an empty table and two tables, a PDF with text, a scanned
\* PDF and plain text; three results of the agent
SessionUrls == {Url("", "example.com/data")}
TableA == CHOOSE e \in TableElems : e.elem = "A"
TableB == CHOOSE e \in TableElems : e.elem = "B"
TableE == CHOOSE e \in TableElems : e.elem = "E"
SessionResponses ==
    {r \in ResponsesWith({<<>>, <<TableA>>, <<TableE>>, <<TableB, TableA>>}) :
        r.net = "error" \/ (r.status = 200 /\ (r.pdf_ok \/ ~IsPdf(r.content_type)))}
GoodSpec == ChartSpec(Labels(2), Values(2))
BadSpec == ChartSpec(Labels(2), Values(1))
SessionResults ==
    { AgentResult({"answer"}, GoodSpec, GoodSpec),
      AgentResult({"table", "line"}, GoodSpec, BadSpec),
      AgentResult({"answer", "table", "bar", "line"}, GoodSpec, GoodSpec) }

\* the source the widgets select
Source(method, file, url) ==
    [method |-> method,
     file |-> IF method = "upload" THEN file ELSE None,
     url |-> IF method = "url" THEN url ELSE None]

CurrentSource == Source(input_method, uploaded_file, input_url)

Fetches(method, url) == method = "url" /\ Truthy(url)

NoResponse == Response("error", 0, "", <<>>, EmptyText, FALSE)

\* the responses the environment may give to the run's GET
ResponsesFor(method, url) ==
    IF Fetches(method, url) THEN SessionResponses ELSE {NoResponse}

NoRun ==
    [clicked |-> FALSE, ingest |-> "none", aborted |-> FALSE, fetched |-> None,
     analysis |-> None]

\* the data display area: the branch of the selected input method
Ingest(d, t, method, ftype, file, url, resp) ==
    LET call == fetch_url_content(Val(url), resp)
    IN  IF method = "upload" /\ Truthy(file)
        THEN UploadIngest(d, t, ftype, Val(file))
        ELSE IF Fetches(method, url)
        THEN IF call.raised # None
             THEN Ingested(d, t, Val(call.raised), TRUE)
             ELSE UrlIngest(d, t, Val(call.ret))
        ELSE Ingested(d, t, "none", FALSE)

\* the script from top to bottom with the widgets at the given values
Rerun(method, ftype, file, url, q, clicked, resp, agent, library) ==
    LET ing == Ingest(df, text_content, method, ftype, file, url, resp)
        src == Source(method, file, url)
    IN  /\ input_method' = method
        /\ file_type' = ftype
        /\ uploaded_file' = file
        /\ input_url' = url
        /\ query' = q
        /\ df' = ing.df
        /\ text_content' = ing.text_content
        /\ origin' = [df |-> IF ing.ingest = "df" THEN Some(src) ELSE origin.df,
                      text |-> IF ing.ingest = "text" THEN Some(src) ELSE origin.text]
        /\ last_ingested' = IF ing.ingest \in {"df", "text"} THEN ing.ingest
                            ELSE last_ingested
        /\ query_widget' =
              IF ing.aborted THEN "absent"
              ELSE IF ing.df # None \/ ing.text_content # None THEN "enabled"
              ELSE "disabled"
        /\ run' = [clicked |-> clicked,
                   ingest |-> ing.ingest,
                   aborted |-> ing.aborted,
                   fetched |-> IF Fetches(method, url)
                               THEN Some([url |-> Val(url), resp |-> resp,
                                          call |-> fetch_url_content(Val(url), resp)])
                               ELSE None,
                   analysis |-> IF clicked /\ ~ing.aborted
                                THEN Some(AnalyzeButton(ing.df, ing.text_content, method,
                                                        file, url, q, agent, library))
                                ELSE None]

NoAgent == Raised("AgentError")

\* a run in which the button was not clicked
Refresh(method, ftype, file, url, q) ==
    \E resp \in ResponsesFor(method, url) :
        Rerun(method, ftype, file, url, q, FALSE, resp, NoAgent, StockStyles)

----------------------------------------------------------------------------
(* The state after the first run of a new session, and the interactions *)

Init ==
    /\ df = None
    /\ text_content = None
    /\ uploaded_file = None
    /\ input_url = None
    /\ input_method = "upload"
    /\ file_type = "Excel"
    /\ query = ""
    /\ query_widget = "disabled"
    /\ origin = [df |-> None, text |-> None]
    /\ last_ingested = "none"
    /\ run = NoRun

\* the radio 'input_method'.  The widgets of the branch left are not rendered
\* and lose their values: the file type and the uploader start anew, and so
\* does the URL field.  session_state.uploaded_file is assigned only in the
\* upload branch (line 301), so it keeps the last file while the method is url
SelectInputMethod(m) ==
    /\ m # input_method
    /\ Refresh(m, "Excel", IF m = "upload" THEN None ELSE uploaded_file, None, query)

\* the radio 'file_type'; the uploader's label and type change with it, which
\* makes it a new, empty widget
SelectFileType(t) ==
    /\ input_method = "upload"
    /\ t # file_type
    /\ Refresh(input_method, t, None, input_url, query)

\* st.file_uploader(type=[file_ext])
UploadFile(f) ==
    /\ input_method = "upload"
    /\ f.fmt = file_type
    /\ Some(f) # uploaded_file
    /\ Refresh(input_method, file_type, Some(f), input_url, query)

\* the uploader's remove button
RemoveFile ==
    /\ input_method = "upload"
    /\ uploaded_file # None
    /\ Refresh(input_method, file_type, None, input_url, query)

\* st.text_input(key='input_url')
EnterUrl(u) ==
    /\ input_method = "url"
    /\ Some(u) # input_url
    /\ Refresh(input_method, file_type, uploaded_file, Some(u), query)

\* st.text_area(key='query_input', disabled=...)
TypeQuery(q) ==
    /\ query_widget = "enabled"
    /\ q # query
    /\ Refresh(input_method, file_type, uploaded_file, input_url, q)

\* the agent is called when the run reaches the dispatch with a frame
CallsAgent(resp) ==
    LET ing == Ingest(df, text_content, input_method, file_type, uploaded_file,
                      input_url, resp)
    IN  /\ ~ing.aborted
        /\ ing.df # None
        /\ Validation(input_method, uploaded_file, input_url, query) = "ok"

AgentOutcomesFor(resp) ==
    IF CallsAgent(resp) THEN AgentOutcomes(SessionResults) ELSE {NoAgent}

\* matplotlib is asked for the style when the result holds a chart
StyleLibrariesFor(agent) ==
    IF agent.raised = None /\ {"bar", "line"} \cap DOMAIN Val(agent.ret) # {}
    THEN StyleLibraries ELSE {StockStyles}

\* st.button(key='analyze_button')
ClickAnalyze ==
    /\ query_widget # "absent"
    /\ \E resp \in ResponsesFor(input_method, input_url) :
          \E agent \in AgentOutcomesFor(resp) :
             \E library \in StyleLibrariesFor(agent) :
                Rerun(input_method, file_type, uploaded_file, input_url, query, TRUE,
                      resp, agent, library)

Next ==
    \/ \E m \in {"upload", "url"} : SelectInputMethod(m)
    \/ \E t \in FileTypes : SelectFileType(t)
    \/ \E f \in Files : UploadFile(f)
    \/ RemoveFile
    \/ \E u \in SessionUrls \cup {EmptyUrl} : EnterUrl(u)
    \/ \E q \in Queries : TypeQuery(q)
    \/ ClickAnalyze

Spec == Init /\ [][Next]_vars

----------------------------------------------------------------------------
(* fetch_url_content on every address and response of the bounded sets *)

FetchCall(u, resp) ==
    /\ run = NoRun
    /\ run' = [NoRun EXCEPT !.fetched = Some([url |-> u, resp |-> resp,
                                              call |-> fetch_url_content(u, resp)])]
    /\ UNCHANGED <<df, text_content, uploaded_file, input_url, input_method,
                   file_type, query, query_widget, origin, last_ingested>>

NextFetch == \E u \in Urls, resp \in Responses : FetchCall(u, resp)

SpecFetch == Init /\ [][NextFetch]_vars

(* display_result on every result of the bounded sets, in both environments *)

RenderCall(r, library) ==
    /\ run = NoRun
    /\ run' = [NoRun EXCEPT
                 !.clicked = TRUE,
                 !.analysis =
                    Some(Analysis(IF display_result(r, library).raised # None
                                  THEN "error" ELSE "displayed",
                                  "agent", <<>>, Some(r), Some(display_result(r, library)),
                                  display_result(r, library).raised, library))]
    /\ UNCHANGED <<df, text_content, uploaded_file, input_url, input_method,
                   file_type, query, query_widget, origin, last_ingested>>

NextRender == \E r \in AgentResults, library \in StyleLibraries : RenderCall(r, library)

SpecRender == Init /\ [][NextRender]_vars

----------------------------------------------------------------------------
(* What the last run did *)

Clicked == run.clicked /\ run.analysis # None
LastAnalysis == Val(run.analysis)
\* the click passed the validation and reached the dispatch
Dispatched == Clicked /\ LastAnalysis.outcome \in {"displayed", "error"}
Fetched == run.fetched # None
LastFetch == Val(run.fetched)
Displayed == Clicked /\ LastAnalysis.display # None
LastDisplay == Val(LastAnalysis.display)
LastResult == Val(LastAnalysis.result)

SourceMissing ==
    \/ input_method = "upload" /\ uploaded_file = None
    \/ input_method = "url" /\ input_url \in {None, Some(EmptyUrl)}

----------------------------------------------------------------------------
(* C1: the session never holds a Tabular Frame and a Text Blob together,    *)
(* and the object it holds is the one the most recent ingestion produced.   *)
(* Stated as the claim has it; the script never resets df or text_content, *)
(* so a CSV upload followed by a Word upload leaves both.                   *)
C1_AtMostOneContent ==
    /\ df = None \/ text_content = None
    /\ last_ingested = "df" => df # None /\ text_content = None
    /\ last_ingested = "text" => text_content # None /\ df = None

(* C2: a click that reaches the dispatch calls dataframe_agent, once and    *)
(* with the held frame and the query, exactly when the most recently       *)
(* ingested content is a Tabular Frame; when it is a Text Blob the agent is *)
(* not called and the text echo is produced.  Stated as the claim has it;  *)
(* the dispatch tests df alone, so a frame left by an earlier source wins.  *)
C2_AgentIffFrameCurrent ==
    Dispatched =>
        /\ last_ingested = "df" =>
              LastAnalysis.calls = <<[frame |-> Val(df), query |-> query]>>
        /\ last_ingested = "text" =>
              LastAnalysis.calls = <<>> /\ LastAnalysis.branch = "text"
        /\ LastAnalysis.calls # <<>> => last_ingested = "df"

(* C3 as stated: on text-only content the answer equals the first PrefixLen *)
(* characters of the text, with nothing prepended.                          *)
C3_AnswerIsBarePrefix ==
    Dispatched /\ LastAnalysis.branch = "text" /\ LastAnalysis.result # None =>
        LastResult.answer = Slice(Val(text_content), PrefixLen)

(* C3 as amended: on text-only content the answer is the fixed label        *)
(* followed by the first PrefixLen characters of the text, unmodified; for  *)
(* a shorter text, the label followed by the whole text.                    *)
C3_AnswerIsLabelledPrefix ==
    Dispatched /\ LastAnalysis.branch = "text" /\ LastAnalysis.result # None =>
        LET answer == LastResult.answer
            text == Val(text_content)
            n == IF Len(text) < PrefixLen THEN Len(text) ELSE PrefixLen
        IN  /\ DOMAIN LastResult = {"answer"}
            /\ Len(answer) = Len(Label) + n
            /\ \A i \in 1 .. Len(Label) : answer[i] = Label[i]
            /\ \A i \in 1 .. n : answer[Len(Label) + i] = text[i]

\* a text longer than the prefix was echoed
C3_Witness ==
    /\ Dispatched /\ LastAnalysis.branch = "text" /\ LastAnalysis.outcome = "displayed"
    /\ df = None
    /\ Len(Val(text_content)) > PrefixLen

(* C4: a click with the content source missing or the query empty is        *)
(* blocked with a warning: the agent is not called, no echo is produced and *)
(* display_result is not called.                                            *)
C4_BlockedWithoutSourceOrQuery ==
    Clicked /\ (SourceMissing \/ query = "") =>
        /\ LastAnalysis.outcome \in {"warn_source", "warn_query"}
        /\ LastAnalysis.calls = <<>>
        /\ LastAnalysis.result = None
        /\ LastAnalysis.display = None

\* a click with a frame held and the query empty was blocked
C4_Witness ==
    /\ Clicked /\ query = "" /\ ~SourceMissing /\ df # None
    /\ LastAnalysis.outcome = "warn_query"

\* a response on which the request, the status check or the parsing fails,
\* and the description of the failure
C5_Fails(resp) ==
    \/ resp.net = "error"
    \/ resp.status >= 400
    \/ IsHtml(resp.content_type) /\ \E i \in DOMAIN resp.tables : ~resp.tables[i].parses
    \/ IsPdf(resp.content_type) /\ ~IsHtml(resp.content_type) /\ ~resp.pdf_ok
C5_Description(resp) ==
    IF resp.net = "error" THEN "ConnectionError"
    ELSE IF resp.status >= 400 THEN "HTTPError"
    ELSE IF IsHtml(resp.content_type) THEN "ValueError"
    ELSE "PdfReadError"

(* C5: fetch_url_content never raises: on a network error, an error status  *)
(* or a failure while parsing the body it returns status "error" with the  *)
(* error's description as message, after exactly one GET.                   *)
C5_FetchNeverRaises ==
    Fetched =>
        /\ LastFetch.call.raised = None
        /\ Len(LastFetch.call.requested) = 1
        /\ C5_Fails(LastFetch.resp) =>
              Val(LastFetch.call.ret) =
                 [status |-> "error", message |-> C5_Description(LastFetch.resp)]
        /\ ~C5_Fails(LastFetch.resp) => Val(LastFetch.call.ret).status = "success"

\* a page whose table could not be parsed came back as an error result
C5_Witness ==
    /\ Fetched
    /\ LastFetch.resp.status = 200 /\ IsHtml(LastFetch.resp.content_type)
    /\ \E i \in DOMAIN LastFetch.resp.tables : ~LastFetch.resp.tables[i].parses
    /\ Val(LastFetch.call.ret).status = "error"

C6_IngestError(r) == r.ingest \in {"ParseError", "FetchError", "KeyError"}
C6_AnalysisError(r) ==
    /\ r.analysis # None
    /\ Val(r.analysis).outcome \in {"error", "warn_source", "warn_query"}

(* C6: an error path leaves the held frame and text as they were: a run     *)
(* whose ingestion fails changes neither, and a run whose click ends in a   *)
(* warning or a caught exception changes nothing but what that run's own    *)
(* ingestion set before the click was handled.                              *)
C6_ErrorsKeepState ==
    [][/\ C6_IngestError(run') => df' = df /\ text_content' = text_content
       /\ C6_AnalysisError(run') =>
             /\ df' = df \/ run'.ingest = "df"
             /\ text_content' = text_content \/ run'.ingest = "text"]_vars

\* a malformed upload failed to parse while a frame and a text were held
C6_Witness ==
    /\ run.ingest = "ParseError"
    /\ df # None
    /\ text_content # None

\* the keys of a result in the renderer's order
C7_PresentKeys(r) == SelectSeq(Keys, LAMBDA k : k \in DOMAIN r)
C7_WellFormed(r) == \A k \in {"bar", "line"} \cap DOMAIN r : WellFormed(r[k])

(* C7: for every Analysis Result (with well-formed chart specs) the         *)
(* sections rendered are exactly those of the keys present, in the order    *)
(* answer, table, bar, line.  Stated as the claim has it; create_chart asks *)
(* for a style no stock matplotlib holds, so a chart section is never       *)
(* rendered and ends the rendering.                                         *)
C7_RendersPresentKeys ==
    Displayed /\ C7_WellFormed(LastResult) =>
        /\ LastDisplay.rendered = C7_PresentKeys(LastResult)
        /\ LastDisplay.raised = None

C8_Drawing == {"subplots", "bar", "plot", "pyplot"}

(* C8: create_chart on a bar or line spec whose label count differs from    *)
(* its value count raises before any drawing step: no figure is created or  *)
(* shown, and where the style is available the error is the ValueError of   *)
(* the length check.                                                        *)
C8_MismatchRaisesBeforeDrawing ==
    Displayed =>
        \A i \in DOMAIN LastDisplay.charts :
            LET c == LastDisplay.charts[i]
            IN  ~WellFormed(LastResult[c.key]) =>
                   /\ c.chart.raised # None
                   /\ \A j \in DOMAIN c.chart.steps : c.chart.steps[j] \notin C8_Drawing
                   /\ c.key \notin {LastDisplay.rendered[j] : j \in DOMAIN LastDisplay.rendered}
                   /\ StyleName \in LastAnalysis.library =>
                         c.chart.raised = Some("ValueError")

\* with the style available, a spec with more labels than values was refused
C8_Witness ==
    /\ Displayed
    /\ StyleName \in LastAnalysis.library
    /\ \E i \in DOMAIN LastDisplay.charts :
          LET c == LastDisplay.charts[i]
          IN  /\ Len(LastResult[c.key].columns) > Len(LastResult[c.key].data)
              /\ c.chart.raised = Some("ValueError")

(* C9: for a successful text/html response whose body holds N table         *)
(* elements the result holds exactly N tables, the i-th element in document *)
(* order tagged table_i, together with the page text.  Stated as the claim  *)
(* has it; one element read_html cannot parse turns the whole result into   *)
(* an error.                                                                *)
C9_TablesInDocumentOrder ==
    Fetched /\ LastFetch.resp.net = "ok" /\ LastFetch.resp.status = 200
            /\ IsHtml(LastFetch.resp.content_type) =>
        LET ret == Val(LastFetch.call.ret)
            elems == LastFetch.resp.tables
        IN  /\ LastFetch.call.raised = None
            /\ ret.status = "success"
            /\ Len(ret.tables) = Len(elems)
            /\ \A i \in 1 .. Len(elems) :
                  /\ ret.tables[i].table_id = TableId(i - 1)
                  /\ ret.tables[i].data = elems[i].rows
            /\ ret.text = LastFetch.resp.text

(* C10: whenever a click reaches the dispatch the session holds a content   *)
(* object produced from the currently selected source.  Stated as the claim *)
(* has it; a frame or text left by an earlier source is dispatched when the *)
(* current source produced nothing.                                         *)
C10_DispatchHoldsCurrentContent ==
    Dispatched =>
        /\ df # None \/ text_content # None
        /\ \/ df # None /\ origin.df = Some(CurrentSource)
           \/ text_content # None /\ origin.text = Some(CurrentSource)

====
